---- MODULE Spec2Model ----
(***************************************************************************)
(* Model of point_mapper.py: the circle-circle intersection search         *)
(* (circle_intersect), the incremental placement solver (solve_initial,    *)
(* solve) and the neighbour graph builder (triangles).                     *)
(*                                                                         *)
(* Numbers.  The program computes in binary floating point.  The model     *)
(* computes in fixed point: a length is an integer number of units of      *)
(* 1e-7, so the program's precision 10e-7 is the length 10; an angle is    *)
(* an integer number of units of (pi/10)/Delta0, so the program's first    *)
(* step pi/10 is the angle Delta0 and a full turn is 20 * Delta0.  Every   *)
(* arithmetic result is rounded to the nearest representable value, as     *)
(* the floating point unit does, and a step too small to be represented    *)
(* is absorbed (theta + delta = theta).                                    *)
(*                                                                         *)
(* A Python dict is a sequence of <<key, value>> pairs in insertion        *)
(* order with pairwise distinct keys.                                      *)
(***************************************************************************)
EXTENDS Integers, Sequences, FiniteSets, TLC

VARIABLES
    circle1, circle2,   \* circle_intersect: the two arguments
    loc,                \* circle_intersect: the locals of the search loop
    cpc,                \* circle_intersect: position ("call", "loop", "returned", "raised")
    cret,               \* circle_intersect: the returned list of two points
    data,               \* solve: the loaded list of PointData records
    points,             \* solve / triangles: the placement dict
    spc,                \* solve: position
    idx,                \* solve: 1-based index of the next record to place
    err,                \* solve: the exception that ended the run ("" if none)
    connections,        \* triangles: the dict being built
    tpc,                \* triangles: position
    ti                  \* triangles: number of items of points already processed

vars == <<circle1, circle2, loc, cpc, cret, data, points, spc, idx, err,
          connections, tpc, ti>>

civars == <<circle1, circle2, loc, cpc, cret>>
svars == <<data, points, spc, idx, err>>
tvars == <<connections, tpc, ti>>

(***************************************************************************)
(* Fixed-point arithmetic                                                  *)
(***************************************************************************)
Precision == 10
Delta0 == 64
FullTurn == 20 * Delta0
Quarter == 5 * Delta0
CosScale == 100000

\* CosTable[k + 1] = cos(k * (pi/10)/Delta0) * CosScale, rounded, k = 0 .. Quarter
CosTable ==
  <<
     100000, 99999, 99995, 99989, 99981, 99970, 99957, 99941, 99923, 99902, 99880, 99854,
     99827, 99796, 99764, 99729, 99692, 99652, 99610, 99565, 99518, 99469, 99417, 99363,
     99307, 99248, 99187, 99123, 99057, 98988, 98918, 98844, 98769, 98691, 98610, 98528,
     98443, 98355, 98265, 98173, 98079, 97982, 97882, 97781, 97677, 97570, 97461, 97350,
     97237, 97121, 97003, 96883, 96760, 96635, 96507, 96378, 96246, 96111, 95974, 95835,
     95694, 95550, 95404, 95256, 95106, 94953, 94798, 94640, 94481, 94319, 94154, 93988,
     93819, 93648, 93475, 93299, 93121, 92941, 92759, 92575, 92388, 92199, 92008, 91814,
     91619, 91421, 91221, 91019, 90814, 90608, 90399, 90188, 89975, 89760, 89542, 89322,
     89101, 88877, 88651, 88422, 88192, 87960, 87725, 87488, 87250, 87009, 86766, 86521,
     86273, 86024, 85773, 85519, 85264, 85007, 84747, 84485, 84222, 83956, 83688, 83419,
     83147, 82873, 82598, 82320, 82040, 81758, 81475, 81189, 80902, 80612, 80321, 80027,
     79732, 79435, 79136, 78835, 78532, 78227, 77920, 77612, 77301, 76989, 76675, 76358,
     76041, 75721, 75399, 75076, 74751, 74424, 74095, 73765, 73432, 73098, 72762, 72425,
     72085, 71744, 71401, 71057, 70711, 70363, 70013, 69662, 69309, 68954, 68598, 68240,
     67880, 67519, 67156, 66791, 66425, 66058, 65688, 65317, 64945, 64571, 64195, 63818,
     63439, 63059, 62677, 62294, 61909, 61523, 61135, 60746, 60356, 59963, 59570, 59175,
     58779, 58381, 57981, 57581, 57179, 56775, 56371, 55964, 55557, 55148, 54738, 54327,
     53914, 53500, 53084, 52668, 52250, 51831, 51410, 50989, 50566, 50142, 49716, 49290,
     48862, 48433, 48003, 47572, 47140, 46706, 46272, 45836, 45399, 44961, 44522, 44082,
     43641, 43199, 42756, 42311, 41866, 41420, 40972, 40524, 40075, 39625, 39174, 38721,
     38268, 37814, 37359, 36904, 36447, 35990, 35531, 35072, 34612, 34151, 33689, 33226,
     32763, 32299, 31834, 31368, 30902, 30434, 29967, 29498, 29028, 28558, 28088, 27616,
     27144, 26671, 26198, 25724, 25249, 24774, 24298, 23822, 23345, 22867, 22389, 21910,
     21431, 20951, 20471, 19990, 19509, 19027, 18545, 18063, 17580, 17096, 16612, 16128,
     15643, 15158, 14673, 14187, 13701, 13215, 12728, 12241, 11754, 11266, 10778, 10290,
     9802, 9313, 8824, 8335, 7846, 7356, 6867, 6377, 5887, 5397, 4907, 4416,
     3926, 3435, 2945, 2454, 1963, 1473, 982, 491, 0
  >>

abs(a) == IF a < 0 THEN -a ELSE a

\* a / b rounded to the nearest integer (b > 0)
RoundDiv(a, b) == (2 * a + b) \div (2 * b)

cos(t) ==
    LET a == t % FullTurn
    IN  IF a <= Quarter THEN CosTable[a + 1]
        ELSE IF a <= 2 * Quarter THEN -CosTable[2 * Quarter - a + 1]
        ELSE IF a <= 3 * Quarter THEN -CosTable[a - 2 * Quarter + 1]
        ELSE CosTable[FullTurn - a + 1]

sin(t) == cos(t - Quarter)

\* the only element of a one-element set
The(S) == CHOOSE v \in S : TRUE

\* the largest s in lo..hi with s * s <= n, by bisection
RECURSIVE SqrtFloor(_, _, _)
SqrtFloor(n, lo, hi) ==
    IF lo >= hi THEN lo
    ELSE The({IF mid * mid <= n THEN SqrtFloor(n, mid, hi)
                                ELSE SqrtFloor(n, lo, mid - 1) :
              mid \in {(lo + hi + 1) \div 2}})

\* square root rounded to the nearest integer
sqrt(n) ==
    The({IF n - r * r > r THEN r + 1 ELSE r :
         r \in {SqrtFloor(n, 0, IF n < 46340 THEN n ELSE 46340)}})

\* math.dist on two points
dist(p, q) == sqrt((p[1] - q[1]) * (p[1] - q[1]) + (p[2] - q[2]) * (p[2] - q[2]))

\* of two angles, the one whose direction is nearer to (dx, dy); a on a tie
NearerAngle(dy, dx, a, b) ==
    IF dx * cos(b) + dy * sin(b) > dx * cos(a) + dy * sin(a) THEN b ELSE a

\* the index in lo..hi of the angle whose direction is nearest to (dx, dy)
RECURSIVE NearestAngle(_, _, _, _)
NearestAngle(dy, dx, lo, hi) ==
    IF lo = hi THEN lo
    ELSE The({NearerAngle(dy, dx, a, b) :
              a \in {NearestAngle(dy, dx, lo, (lo + hi) \div 2)},
              b \in {NearestAngle(dy, dx, (lo + hi) \div 2 + 1, hi)}})

\* math.atan2, in angle units, in (-pi, pi]: the nearest angle of the first
\* quadrant for (|dx|, |dy|), reflected into the quadrant of (dx, dy)
atan2(dy, dx) ==
    IF dx = 0 /\ dy = 0 THEN 0
    ELSE The({IF dx >= 0 THEN (IF dy >= 0 THEN a ELSE -a)
              ELSE (IF dy >= 0 THEN 2 * Quarter - a ELSE a - 2 * Quarter) :
              a \in {NearestAngle(abs(dy), abs(dx), 0, Quarter)}})

Circle(x, y, r) == [x |-> x, y |-> y, r |-> r]

(***************************************************************************)
(* circle_intersect                                                        *)
(***************************************************************************)
\* the guard of the raise
NoIntersect(c1, c2) ==
    LET circle_center_distance == dist(<<c1.x, c1.y>>, <<c2.x, c2.y>>)
    IN  \/ circle_center_distance >= c1.r + c2.r
        \/ circle_center_distance + c1.r < c2.r
        \/ circle_center_distance + c2.r < c1.r

\* the locals before the loop
InitLocals(c1) ==
    [delta |-> Delta0, theta |-> 0, last_distance |-> c1.r * 2,
     lowest |-> c1.r * 2, x1 |-> 0, y1 |-> 0]

\* delta *= -0.5
NegHalf(d) == IF d > 0 THEN -(d \div 2) ELSE (-d) \div 2

PointAt(c, theta) ==
    <<RoundDiv(cos(theta) * c.r, CosScale) + c.x,
      RoundDiv(sin(theta) * c.r, CosScale) + c.y>>

\* lines 88-93, given the point and the distance of lines 85-87
LoopUpdate(s, p, distance) ==
    The({[delta |-> delta,
          theta |-> (s.theta + delta) % FullTurn,
          last_distance |-> distance,
          lowest |-> IF distance < s.lowest THEN distance ELSE s.lowest,
          x1 |-> p[1], y1 |-> p[2]] :
         delta \in {IF distance > s.last_distance THEN NegHalf(s.delta) ELSE s.delta}})

\* one iteration of the while loop
LoopBody(c1, c2, s) ==
    The({LoopUpdate(s, p[1], p[2]) :
         p \in {<<q, abs(dist(q, <<c2.x, c2.y>>) - c2.r)>> : q \in {PointAt(c1, s.theta)}}})

\* the statements after the loop: the other point, and the returned list
OtherPoint(c1, c2, s) ==
    LET offset_angle == atan2(c2.y - c1.y, c2.x - c1.x)
        theta == s.theta + 2 * (offset_angle - s.theta)
    IN  PointAt(c1, theta)

Candidates(c1, c2, s) == <<(<<s.x1, s.y1>>), OtherPoint(c1, c2, s)>>

\* the loop can make no further progress: the step has been absorbed
Stuck(s) == s.lowest > Precision /\ s.delta = 0

RECURSIVE Search(_, _, _)
Search(c1, c2, s) ==
    IF s.lowest > Precision
    THEN IF Stuck(s) THEN [kind |-> "hang", pts |-> <<>>]
         ELSE The({Search(c1, c2, t) : t \in {LoopBody(c1, c2, s)}})
    ELSE [kind |-> "ok", pts |-> Candidates(c1, c2, s)]

circle_intersect(c1, c2) ==
    IF NoIntersect(c1, c2) THEN [kind |-> "raise", pts |-> <<>>]
    ELSE Search(c1, c2, InitLocals(c1))

(***************************************************************************)
(* dict: a sequence of <<key, value>> pairs in insertion order             *)
(***************************************************************************)
Keys(d) == {d[i][1] : i \in DOMAIN d}

Has(d, k) == k \in Keys(d)

\* d[k]
Get(d, k) == d[CHOOSE i \in DOMAIN d : d[i][1] = k][2]

\* a faulty d[k] = v: the dict is rebuilt with the one key
Put_Rebuilt(d, k, v) == <<<<k, v>>>>

\* d[k] = v: a new key is appended, an old key keeps its place
Put(d, k, v) ==
    IF Has(d, k)
    THEN [i \in DOMAIN d |-> IF d[i][1] = k THEN <<k, v>> ELSE d[i]]
    ELSE Append(d, <<k, v>>)

(***************************************************************************)
(* solve_initial and solve                                                 *)
(***************************************************************************)
PointData(id, distances) == [id |-> id, distances |-> distances]
DistanceData(origin, distance) == [origin |-> origin, distance |-> distance]

\* the outcome of a step: how it ended, and the dict it leaves
Ok(pts) == [kind |-> "ok", points |-> pts]
Raise(exception, pts) == [kind |-> exception, points |-> pts]

\* a faulty convert_to_circle: only the first three measurements are looked up
convert_to_circle_FirstThree(pts, distance_data) ==
    LET used == SubSeq(distance_data, 1,
                       IF Len(distance_data) < 3 THEN Len(distance_data) ELSE 3)
    IN  IF \E k \in DOMAIN used : ~Has(pts, used[k].origin)
        THEN [kind |-> "KeyError", circles |-> <<>>]
        ELSE [kind |-> "ok",
              circles |-> [k \in DOMAIN used |->
                              Circle(Get(pts, used[k].origin)[1],
                                     Get(pts, used[k].origin)[2],
                                     used[k].distance)]]

\* [Circle(*points[p], d) for (p, d) in distance_data]
convert_to_circle(pts, distance_data) ==
    IF \E k \in DOMAIN distance_data : ~Has(pts, distance_data[k].origin)
    THEN [kind |-> "KeyError", circles |-> <<>>]
    ELSE [kind |-> "ok",
          circles |-> [k \in DOMAIN distance_data |->
                          Circle(Get(pts, distance_data[k].origin)[1],
                                 Get(pts, distance_data[k].origin)[2],
                                 distance_data[k].distance)]]

\* lines 106-109
solve_initial_0(dat) ==
    IF Len(dat) < 1 THEN Raise("IndexError", <<>>)
    ELSE Ok(Put(<<>>, dat[1].id, <<0, 0>>))

\* lines 112-113
solve_initial_1(pts, dat) ==
    IF Len(dat) < 2 THEN Raise("IndexError", pts)
    ELSE IF Len(dat[2].distances) < 1 THEN Raise("IndexError", pts)
    ELSE Ok(Put(pts, dat[2].id, <<0, dat[2].distances[1].distance>>))

\* line 117, given the circles of line 116
FirstIntersect(pts, id, circles) ==
    IF Len(circles) < 2 THEN Raise("IndexError", pts)
    ELSE The({IF r.kind = "raise" THEN Raise("RuntimeError", pts)
              ELSE IF r.kind = "hang" THEN Raise("hang", pts)
              ELSE Ok(Put(pts, id, r.pts[1])) :
              r \in {circle_intersect(circles[1], circles[2])}})

\* a faulty solve_initial: with fewer than three records the dict is returned
solve_initial_2_Partial(pts, dat) ==
    IF Len(dat) < 3 THEN Ok(pts)
    ELSE The({IF cv.kind # "ok" THEN Raise(cv.kind, pts)
              ELSE FirstIntersect(pts, dat[3].id, cv.circles) :
              cv \in {convert_to_circle(pts, dat[3].distances)}})

\* lines 116-118
solve_initial_2(pts, dat) ==
    IF Len(dat) < 3 THEN Raise("IndexError", pts)
    ELSE The({IF cv.kind # "ok" THEN Raise(cv.kind, pts)
              ELSE FirstIntersect(pts, dat[3].id, cv.circles) :
              cv \in {convert_to_circle(pts, dat[3].distances)}})

\* a faulty choice: the first candidate also wins a tie
PointPos_TieToFirst(intersects, circle3) ==
    IF abs(dist(<<circle3.x, circle3.y>>, intersects[1]) - circle3.r)
         <= abs(dist(<<circle3.x, circle3.y>>, intersects[2]) - circle3.r)
    THEN intersects[1]
    ELSE intersects[2]

\* lines 130-132: the candidate kept
PointPos(intersects, circle3) ==
    IF abs(dist(<<circle3.x, circle3.y>>, intersects[1]) - circle3.r)
         < abs(dist(<<circle3.x, circle3.y>>, intersects[2]) - circle3.r)
    THEN intersects[1]
    ELSE intersects[2]

\* a faulty loop body: with two circles the first candidate is stored
PlaceByCircles_TwoSuffice(pts, id, circles) ==
    IF Len(circles) < 2 THEN Raise("IndexError", pts)
    ELSE The({IF r.kind = "raise" THEN Raise("RuntimeError", pts)
              ELSE IF r.kind = "hang" THEN Raise("hang", pts)
              ELSE IF Len(circles) < 3 THEN Ok(Put(pts, id, r.pts[1]))
              ELSE Ok(Put(pts, id, PointPos(r.pts, circles[3]))) :
              r \in {circle_intersect(circles[1], circles[2])}})

\* a faulty loop body: the last circle, not the third, breaks the ambiguity
PlaceByCircles_LastCircle(pts, id, circles) ==
    IF Len(circles) < 2 THEN Raise("IndexError", pts)
    ELSE The({IF r.kind = "raise" THEN Raise("RuntimeError", pts)
              ELSE IF r.kind = "hang" THEN Raise("hang", pts)
              ELSE IF Len(circles) < 3 THEN Raise("IndexError", pts)
              ELSE Ok(Put(pts, id, PointPos(r.pts, circles[Len(circles)]))) :
              r \in {circle_intersect(circles[1], circles[2])}})

\* lines 129-133, given the circles of line 128
PlaceByCircles(pts, id, circles) ==
    IF Len(circles) < 2 THEN Raise("IndexError", pts)
    ELSE The({IF r.kind = "raise" THEN Raise("RuntimeError", pts)
              ELSE IF r.kind = "hang" THEN Raise("hang", pts)
              ELSE IF Len(circles) < 3 THEN Raise("IndexError", pts)
              ELSE Ok(Put(pts, id, PointPos(r.pts, circles[3]))) :
              r \in {circle_intersect(circles[1], circles[2])}})

\* lines 128-133: the body of the for loop
solve_point(pts, point) ==
    The({IF cv.kind # "ok" THEN Raise(cv.kind, pts)
         ELSE PlaceByCircles(pts, point.id, cv.circles) :
         cv \in {convert_to_circle(pts, point.distances)}})

\* lines 127-135: the for loop from the i-th record on, and the return
RECURSIVE solve_loop(_, _, _)
solve_loop(pts, dat, i) ==
    IF i > Len(dat) THEN [kind |-> "returned", points |-> pts]
    ELSE The({IF r.kind = "ok" THEN solve_loop(r.points, dat, i + 1)
              ELSE [kind |-> r.kind, points |-> <<>>] :
              r \in {solve_point(pts, dat[i])}})

\* solve on the loaded data: "returned" with the dict, or the exception
\* ("hang" if a search never ends)
solve(dat) ==
    The({IF r0.kind # "ok" THEN [kind |-> r0.kind, points |-> <<>>]
         ELSE The({IF r1.kind # "ok" THEN [kind |-> r1.kind, points |-> <<>>]
                   ELSE The({IF r2.kind # "ok" THEN [kind |-> r2.kind, points |-> <<>>]
                             ELSE solve_loop(r2.points, dat, 4) :
                             r2 \in {solve_initial_2(r1.points, dat)}}) :
                   r1 \in {solve_initial_1(r0.points, dat)}}) :
         r0 \in {solve_initial_0(dat)}})

(***************************************************************************)
(* triangles                                                               *)
(***************************************************************************)
Range(seq) == {seq[i] : i \in DOMAIN seq}

\* line 145: [(i, math.dist(pos, p)) for i, p in points.items() if i != id]
Distances(pts, id, pos) ==
    LET Other(item) == item[1] # id
        others == SelectSeq(pts, Other)
    IN  [k \in DOMAIN others |-> <<others[k][1], dist(pos, others[k][2])>>]

\* a faulty filter: nothing is dropped
Unconnected_All(conns, id, distances) == distances

\* lines 146-150: drop the points whose list already holds id
Unconnected(conns, id, distances) ==
    LET Keep(e) == ~Has(conns, e[1]) \/ id \notin Range(Get(conns, e[1]))
    IN  SelectSeq(distances, Keep)

\* e put into a list sorted by distance, after the entries that are not farther
InsertSorted(list, e) ==
    LET NotAfter(x) == x[2] <= e[2]
        After(x) == x[2] > e[2]
    IN  SelectSeq(list, NotAfter) \o <<e>> \o SelectSeq(list, After)

\* sorted(list, key=lambda p: p[1]): stable
RECURSIVE Sorted(_)
Sorted(list) ==
    IF list = <<>> THEN <<>>
    ELSE InsertSorted(Sorted(SubSeq(list, 1, Len(list) - 1)), list[Len(list)])

\* a faulty slice: list[:3]
FirstThree(list) == SubSeq(list, 1, IF Len(list) < 3 THEN Len(list) ELSE 3)

\* list[:2]
FirstTwo(list) == SubSeq(list, 1, IF Len(list) < 2 THEN Len(list) ELSE 2)

\* lines 145-152: the list stored for id
ClosePoints(pts, conns, id, pos) ==
    LET close_points == FirstTwo(Sorted(Unconnected(conns, id, Distances(pts, id, pos))))
    IN  [k \in DOMAIN close_points |-> close_points[k][1]]

(***************************************************************************)
(* circle_intersect as a process: one step per loop iteration              *)
(***************************************************************************)
Coords == {0, 300, 400, 5000}
Radii == {0, 100, 300, 500, 5000}

NoLocals == [delta |-> 0, theta |-> 0, last_distance |-> 0, lowest |-> 0,
             x1 |-> 0, y1 |-> 0]

SolveIdle ==
    /\ data = <<>>
    /\ points = <<>>
    /\ spc = "idle"
    /\ idx = 0
    /\ err = ""

TrianglesIdle ==
    /\ connections = <<>>
    /\ tpc = "idle"
    /\ ti = 0

CircleIdle ==
    /\ circle1 = Circle(0, 0, 0)
    /\ circle2 = Circle(0, 0, 0)
    /\ loc = NoLocals
    /\ cpc = "idle"
    /\ cret = <<>>

InitCI ==
    /\ circle1 \in {Circle(0, 0, r) : r \in Radii}
    /\ circle2 \in {Circle(c[1], c[2], c[3]) : c \in Coords \X Coords \X Radii}
    /\ loc = NoLocals
    /\ cpc = "call"
    /\ cret = <<>>
    /\ SolveIdle
    /\ TrianglesIdle

\* lines 70-74: the circles do not intersect
CIRaise ==
    /\ cpc = "call"
    /\ NoIntersect(circle1, circle2)
    /\ cpc' = "raised"
    /\ UNCHANGED <<circle1, circle2, loc, cret, svars, tvars>>

\* lines 70-82: the check passes, the locals are initialised
CIEnter ==
    /\ cpc = "call"
    /\ ~NoIntersect(circle1, circle2)
    /\ loc' = InitLocals(circle1)
    /\ cpc' = "loop"
    /\ UNCHANGED <<circle1, circle2, cret, svars, tvars>>

\* lines 84-93: one iteration
CILoop ==
    /\ cpc = "loop"
    /\ loc.lowest > Precision
    /\ loc' = LoopBody(circle1, circle2, loc)
    /\ UNCHANGED <<circle1, circle2, cpc, cret, svars, tvars>>

\* lines 95-101: the loop has ended
CIReturn ==
    /\ cpc = "loop"
    /\ ~(loc.lowest > Precision)
    /\ cret' = Candidates(circle1, circle2, loc)
    /\ cpc' = "returned"
    /\ UNCHANGED <<circle1, circle2, loc, svars, tvars>>

NextCI == CIRaise \/ CIEnter \/ CILoop \/ CIReturn

SpecCI == InitCI /\ [][NextCI]_vars

\* the interpreter runs the function to its end whenever it can
FairSpecCI == SpecCI /\ WF_vars(NextCI)

(***************************************************************************)
(* solve as a process: one step per record                                 *)
(***************************************************************************)
MaxRecords == 4
MaxMeas == 4

\* an id that no record carries
UnplacedId == MaxRecords + 1

\* the measurements tried as the j-th measurement of the i-th record
Alternatives(i, j) ==
    IF j = 1 THEN IF i = 2 THEN {DistanceData(1, 300), DistanceData(1, 500)}
                  ELSE IF i = 3 THEN {DistanceData(1, 300)}
                  ELSE {DistanceData(1, 300), DistanceData(3, 300)}
    ELSE IF j = 2 THEN {DistanceData(2, 300), DistanceData(2, 700),
                        DistanceData(UnplacedId, 300)}
    ELSE IF j = 3 THEN {DistanceData(3, 100), DistanceData(3, 600),
                        DistanceData(1, 300), DistanceData(2, 500)}
    ELSE {DistanceData(1, 300), DistanceData(1, 600), DistanceData(UnplacedId, 300)}

\* the numbers of measurements tried for the i-th record
MeasCounts(i) == IF i >= 4 THEN 0 .. MaxMeas ELSE 0 .. (i - 1)

\* the ids tried for the i-th record: its own, or (late records) a repeated one
IdsFor(i) == IF i >= 4 THEN {i, 1} ELSE {i}

RECURSIVE MeasSeqs(_, _)
MeasSeqs(i, m) ==
    IF m = 0 THEN {<<>>}
    ELSE {Append(ms, a) : ms \in MeasSeqs(i, m - 1), a \in Alternatives(i, m)}

RecordsAt(i) ==
    {PointData(id, ms) : id \in IdsFor(i),
                         ms \in UNION {MeasSeqs(i, m) : m \in MeasCounts(i)}}

\* the records tried before the last one: a failing record ends the run, so
\* the records before the last are ones that can be placed (one of them with
\* a repeated id, one with a measurement beyond the third)
PrefixRecordsAt(i) ==
    IF i = 1 THEN {PointData(1, <<>>)}
    ELSE IF i = 2 THEN {PointData(2, <<DistanceData(1, 300)>>),
                        PointData(2, <<DistanceData(1, 500)>>)}
    ELSE IF i = 3 THEN {PointData(3, <<DistanceData(1, 300), DistanceData(2, 300)>>)}
    ELSE {PointData(i, <<DistanceData(1, 300), DistanceData(2, 300),
                         DistanceData(3, 100)>>),
          PointData(1, <<DistanceData(1, 300), DistanceData(2, 300),
                         DistanceData(3, 600)>>),
          PointData(i, <<DistanceData(1, 300), DistanceData(2, 300),
                         DistanceData(3, 600), DistanceData(1, 600)>>)}

RECURSIVE Prefixes(_)
Prefixes(n) ==
    IF n = 0 THEN {<<>>}
    ELSE {Append(d, r) : d \in Prefixes(n - 1), r \in PrefixRecordsAt(n)}

DataOfLen(n) ==
    IF n = 0 THEN {<<>>}
    ELSE {Append(d, r) : d \in Prefixes(n - 1), r \in RecordsAt(n)}

Inputs == UNION {DataOfLen(n) : n \in 0 .. MaxRecords}

InitSolve ==
    /\ data \in Inputs
    /\ points = <<>>
    /\ spc = "running"
    /\ idx = 1
    /\ err = ""
    /\ CircleIdle
    /\ TrianglesIdle

\* the step ended as r: go on, or leave solve with the exception
Continue(r) ==
    /\ points' = r.points
    /\ IF r.kind = "ok" THEN /\ spc' = "running"
                             /\ idx' = idx + 1
                             /\ err' = ""
       ELSE IF r.kind = "hang" THEN /\ spc' = "hung"
                                    /\ UNCHANGED <<idx, err>>
       ELSE /\ spc' = "failed"
            /\ err' = r.kind
            /\ UNCHANGED idx
    /\ UNCHANGED <<data, civars, tvars>>

SolveInitial0 ==
    /\ spc = "running"
    /\ idx = 1
    /\ Continue(solve_initial_0(data))

SolveInitial1 ==
    /\ spc = "running"
    /\ idx = 2
    /\ Continue(solve_initial_1(points, data))

SolveInitial2 ==
    /\ spc = "running"
    /\ idx = 3
    /\ Continue(solve_initial_2(points, data))

SolvePoint ==
    /\ spc = "running"
    /\ idx >= 4
    /\ idx <= Len(data)
    /\ Continue(solve_point(points, data[idx]))

SolveReturn ==
    /\ spc = "running"
    /\ idx >= 4
    /\ idx > Len(data)
    /\ spc' = "returned"
    /\ UNCHANGED <<data, points, idx, err, civars, tvars>>

NextSolve == SolveInitial0 \/ SolveInitial1 \/ SolveInitial2 \/ SolvePoint \/ SolveReturn

SpecSolve == InitSolve /\ [][NextSolve]_vars

(***************************************************************************)
(* triangles as a process: one step per item of points                     *)
(***************************************************************************)
MaxPoints == 4
Grid == {0, 100} \X {0, 100, 200}

\* the dicts with ids 1 .. n, in this order, at any positions of the grid
PlacementsOfSize(n) ==
    {[k \in 1 .. n |-> <<k, pos[k]>>] : pos \in [1 .. n -> Grid]}

InitTriangles ==
    /\ points \in UNION {PlacementsOfSize(n) : n \in 1 .. MaxPoints}
    /\ data = <<>>
    /\ spc = "idle"
    /\ idx = 0
    /\ err = ""
    /\ connections = <<>>
    /\ tpc = "loop"
    /\ ti = 0
    /\ CircleIdle

\* lines 144-152: the next item of points
TrianglesItem ==
    /\ tpc = "loop"
    /\ ti < Len(points)
    /\ connections' = Put(connections, points[ti + 1][1],
                          ClosePoints(points, connections,
                                      points[ti + 1][1], points[ti + 1][2]))
    /\ ti' = ti + 1
    /\ UNCHANGED <<tpc, svars, civars>>

\* line 153
TrianglesReturn ==
    /\ tpc = "loop"
    /\ ti = Len(points)
    /\ tpc' = "returned"
    /\ UNCHANGED <<connections, ti, svars, civars>>

NextTriangles == TrianglesItem \/ TrianglesReturn

SpecTriangles == InitTriangles /\ [][NextTriangles]_vars

(***************************************************************************)
(* Properties                                                              *)
(***************************************************************************)

\* C1 (as stated): when triangles has returned for a dict of at least 3
\* points, every point has exactly 2 neighbour ids.
C1_ExactlyTwo ==
    (tpc = "returned" /\ Len(points) >= 3)
        => \A k \in DOMAIN points : Len(Get(connections, points[k][1])) = 2

\* C1 (amended): when triangles has returned for a dict of at least 3 points,
\* every point has at most 2 neighbour ids and never itself: exactly
\* min(2, m) of them, m being the number of other points that are not
\* earlier points whose list holds it; the first point has exactly 2.
C1_AtMostTwo ==
    (tpc = "returned" /\ Len(points) >= 3)
        => /\ Len(Get(connections, points[1][1])) = 2
           /\ \A k \in DOMAIN points :
                 LET id == points[k][1]
                     list == Get(connections, id)
                     m == Cardinality({j \in DOMAIN points :
                              /\ j # k
                              /\ ~(j < k /\ id \in Range(Get(connections, points[j][1])))})
                 IN  /\ Len(list) = (IF m < 2 THEN m ELSE 2)
                     /\ id \notin Range(list)

\* C1 witness: triangles has returned for 4 points, one of them with two
\* neighbours and one with fewer.
C1_Witness ==
    /\ tpc = "returned"
    /\ Len(points) = 4
    /\ \E k \in DOMAIN points : Len(Get(connections, points[k][1])) = 2
    /\ \E k \in DOMAIN points : Len(Get(connections, points[k][1])) < 2

\* C9: no two points ever list each other, and the list of a point that has
\* been processed is not changed by the processing of a later point.
C9_NoMutualLink ==
    /\ [](\A i, j \in DOMAIN connections :
             ~(/\ connections[i][1] \in Range(connections[j][2])
               /\ connections[j][1] \in Range(connections[i][2])))
    /\ [][\A i \in DOMAIN connections :
             /\ i \in DOMAIN connections'
             /\ connections'[i] = connections[i]]_vars

\* C9 witness: triangles has returned and a later point left out an earlier
\* point that lists it although that point is one of its two nearest.
C9_Witness ==
    /\ tpc = "returned"
    /\ Len(points) >= 3
    /\ \E i, j \in DOMAIN points :
          /\ i < j
          /\ points[j][1] \in Range(Get(connections, points[i][1]))
          /\ \E e \in Range(FirstTwo(Sorted(Distances(points, points[j][1], points[j][2])))) :
                e[1] = points[i][1]

\* C3 (as stated): circle_intersect raises for every tangent pair: once the
\* check has run on circles whose centre distance is r1 + r2, or is
\* |r1 - r2| and positive, the call has raised.
C3_TangentRaises ==
    LET d == dist(<<circle1.x, circle1.y>>, <<circle2.x, circle2.y>>)
        tangent == \/ d = circle1.r + circle2.r
                   \/ (d > 0 /\ d = abs(circle1.r - circle2.r))
    IN  (tangent /\ cpc \in {"loop", "returned", "raised"}) => cpc = "raised"

\* C10 (as stated): once the search loop is entered it reaches an angle
\* whose error is at most the precision.
C10_SearchTerminates == (cpc = "loop") ~> (cpc = "loop" /\ ~(loc.lowest > Precision))

\* C6: with fewer than 3 records solve places no record beyond the data, ends
\* only by the index error, and never returns a dict.
C6_TooFewRecords ==
    Len(data) < 3 =>
        /\ spc \in {"idle", "running", "failed"}
        /\ spc = "running" => idx <= Len(data) + 1
        /\ spc = "failed" => err = "IndexError"

\* C6 witness: solve has failed on 2 records after placing both points.
C6_Witness ==
    /\ spc = "failed"
    /\ err = "IndexError"
    /\ Len(data) = 2
    /\ Len(points) = 2

\* C4: when a record at index >= 2 is processed, solve fails with the key
\* error if one of its measurements references an id that is not in the
\* dict, and does not fail with the key error if all are in the dict.
C4_MissingReference ==
    [][(spc = "running" /\ idx >= 3 /\ idx <= Len(data)) =>
          LET missing == \E k \in DOMAIN data[idx].distances :
                              ~Has(points, data[idx].distances[k].origin)
          IN  /\ missing => (spc' = "failed" /\ err' = "KeyError")
              /\ ~missing => ~(spc' = "failed" /\ err' = "KeyError")]_vars

\* C4 witness: solve has failed with the key error on a record at index >= 3
\* whose first three measurements reference placed ids.
C4_Witness ==
    /\ spc = "failed"
    /\ err = "KeyError"
    /\ idx >= 4
    /\ Len(data[idx].distances) >= 4
    /\ \A k \in 1 .. 3 : Has(points, data[idx].distances[k].origin)

\* C5 (as stated): when a record at index >= 3 with fewer than 3 measurements
\* is processed, solve fails with the index error.
C5_FailsWithIndexError ==
    [][(spc = "running" /\ idx >= 4 /\ idx <= Len(data)
          /\ Len(data[idx].distances) < 3) =>
          (spc' = "failed" /\ err' = "IndexError")]_vars

\* C5 (amended): when a record at index >= 3 with fewer than 3 measurements
\* is processed, the record is not placed and solve never returns; if it
\* raises, it raises the key error when a measurement references an unplaced
\* id, else the index error when there are fewer than 2 measurements, else
\* the runtime error when the two circles fail the check, else the index
\* error.
C5_NeverPlaced ==
    [][(spc = "running" /\ idx >= 4 /\ idx <= Len(data)
          /\ Len(data[idx].distances) < 3) =>
          LET ms == data[idx].distances
              missing == \E k \in DOMAIN ms : ~Has(points, ms[k].origin)
              c(k) == Circle(Get(points, ms[k].origin)[1],
                             Get(points, ms[k].origin)[2], ms[k].distance)
              expected == IF missing THEN "KeyError"
                          ELSE IF Len(ms) < 2 THEN "IndexError"
                          ELSE IF NoIntersect(c(1), c(2)) THEN "RuntimeError"
                          ELSE "IndexError"
          IN  /\ spc' \in {"failed", "hung"}
              /\ spc' = "failed" => err' = expected
              /\ idx' = idx]_vars

\* C5 witness: solve has failed with the index error on a record at index
\* >= 3 that has 2 measurements.
C5_Witness ==
    /\ spc = "failed"
    /\ err = "IndexError"
    /\ idx >= 4
    /\ Len(data[idx].distances) = 2

\* the data without the measurements beyond the third of records at index >= 3
Truncated(dat) ==
    [i \in DOMAIN dat |->
        IF i >= 4 /\ Len(dat[i].distances) > 3
        THEN PointData(dat[i].id, SubSeq(dat[i].distances, 1, 3))
        ELSE dat[i]]

\* how the run ended, in the form solve gives
Outcome ==
    [kind |-> IF spc = "returned" THEN "returned"
              ELSE IF spc = "hung" THEN "hang" ELSE err,
     points |-> IF spc = "returned" THEN points ELSE <<>>]

\* C7 (as stated): the outcome of a run is the outcome on the data without
\* the measurements beyond the third of the records at index >= 3.
C7_ExtraIgnored ==
    spc \in {"returned", "failed", "hung"} => Outcome = solve(Truncated(data))

\* C7 (amended): the same, for data in which every measurement beyond the
\* third of a record at index >= 3 references the id of an earlier record.
C7_ExtraPlacedIgnored ==
    (/\ spc \in {"returned", "failed", "hung"}
     /\ \A i \in DOMAIN data : \A k \in DOMAIN data[i].distances :
           (i >= 4 /\ k >= 4) =>
               \E j \in 1 .. (i - 1) : data[j].id = data[i].distances[k].origin)
        => Outcome = solve(Truncated(data))

\* C7 witness: solve has returned a dict for data with a record at index >= 3
\* that has a fourth measurement whose distance differs from the distance of
\* the stored position to the referenced point.
C7_Witness ==
    /\ spc = "returned"
    /\ \E i \in DOMAIN data :
          /\ i >= 4
          /\ Len(data[i].distances) >= 4
          /\ Has(points, data[i].distances[4].origin)
          /\ dist(Get(points, data[i].id), Get(points, data[i].distances[4].origin))
                # data[i].distances[4].distance

\* C8: a record at index >= 3 that is placed is stored at one of the two
\* candidates of its first two circles: at the first if its discrepancy to
\* the third circle is strictly smaller, at the second otherwise.
C8_NearestCandidate ==
    [][(spc = "running" /\ idx >= 4 /\ idx <= Len(data) /\ spc' = "running") =>
          LET ms == data[idx].distances
              c(k) == Circle(Get(points, ms[k].origin)[1],
                             Get(points, ms[k].origin)[2], ms[k].distance)
              cands == circle_intersect(c(1), c(2)).pts
              n1 == abs(dist(<<c(3).x, c(3).y>>, cands[1]) - c(3).r)
              n2 == abs(dist(<<c(3).x, c(3).y>>, cands[2]) - c(3).r)
              stored == Get(points', data[idx].id)
          IN  /\ stored \in {cands[1], cands[2]}
              /\ n1 < n2 => stored = cands[1]
              /\ n1 >= n2 => stored = cands[2]]_vars

\* C8 witness: the record at index 3 has been placed at the second candidate
\* although the two candidates differ and have equal discrepancies.
C8_Witness ==
    /\ spc = "running"
    /\ idx = 5
    /\ Len(points) = 4
    /\ points[4][1] = data[4].id
    /\ LET prev == SubSeq(points, 1, 3)
           ms == data[4].distances
           c(k) == Circle(Get(prev, ms[k].origin)[1],
                          Get(prev, ms[k].origin)[2], ms[k].distance)
           cands == circle_intersect(c(1), c(2)).pts
       IN  /\ cands[1] # cands[2]
           /\ abs(dist(<<c(3).x, c(3).y>>, cands[1]) - c(3).r)
                = abs(dist(<<c(3).x, c(3).y>>, cands[2]) - c(3).r)
           /\ points[4][2] = cands[2]

\* C2 (as stated): no step of solve removes an id from the dict or changes
\* the position stored for an id.
C2_Immutable ==
    [][spc = "running" =>
          \A k \in Keys(points) :
              Has(points', k) /\ Get(points', k) = Get(points, k)]_vars

\* C2 (amended): the same, for data whose records have pairwise distinct ids.
C2_ImmutableDistinctIds ==
    [][(/\ spc = "running"
        /\ \A i, j \in DOMAIN data : data[i].id = data[j].id => i = j) =>
          \A k \in Keys(points) :
              Has(points', k) /\ Get(points', k) = Get(points, k)]_vars

\* C2 witness: four records of data with distinct ids have been placed one
\* after the other and all four are in the dict.
C2_Witness ==
    /\ spc \in {"running", "returned"}
    /\ Len(points) = 4
    /\ \A i, j \in DOMAIN data : data[i].id = data[j].id => i = j
    /\ \A i \in 1 .. 4 : Has(points, data[i].id)

====
